---- MODULE Spec2Model ----
(***************************************************************************)
(* Benchmark-and-validate harness of benchpress: the suite entries of      *)
(* bqskit_gym/abstract_transpile/test_qasmbench.py and                     *)
(* qiskit_gym/device_transpile/test_summit.py, and the QASM loader of      *)
(* qiskit_gym/utils/io.py.  One pytest session runs entries one after the  *)
(* other; each entry is the body of one test method, one action per        *)
(* statement.  The compiler, the pass manager and the circuit methods are  *)
(* external collaborators: they are modelled by their call contract.       *)
(***************************************************************************)
EXTENDS Integers, Sequences, FiniteSets, TLC

\* ---------------------------------------------------------------- bounds
\* entries one session executes (pytest name selection)
MaxRun == 2
\* calls of the benchmarked closure made by the benchmark fixture
MaxSamples == 2
\* gate operations of a compiled circuit
MaxGates == 2
\* largest reading of perf_counter
MaxClock == 1

\* ------------------------------------------------------- program constants
\* qubit count of the generated circuits: EfficientSU2(100, ...),
\* bv_all_ones(100), trivial_bvlike_circuit(100), and of the *_N100 files
N100 == 100

\* ------------------------------------------------------------ suite entries
BqskitEntries ==
    {"test_QASMBench_small", "test_QASMBench_medium", "test_QASMBench_large"}

\* entries of TestWorkoutDeviceTranspile100Q that read a QASM file
QiskitLoaderEntries ==
    {"test_QFT_100_transpile", "test_QV_100_transpile",
     "test_square_heisenberg_100_transpile", "test_QAOA_100_transpile"}

\* entries of TestWorkoutDeviceTranspile100Q that build their circuit
QiskitGeneratorEntries ==
    {"test_circSU2_100_transpile", "test_BV_100_transpile",
     "test_BVlike_simplification_transpile"}

QiskitEntries == QiskitLoaderEntries \cup QiskitGeneratorEntries

Entries == BqskitEntries \cup QiskitEntries

\* the test class an entry is a method of
TestClass(e) ==
    CASE e = "test_QASMBench_small" -> "TestWorkoutAbstractQasmBenchSmall"
      [] e = "test_QASMBench_medium" -> "TestWorkoutAbstractQasmBenchMedium"
      [] e = "test_QASMBench_large" -> "TestWorkoutAbstractQasmBenchLarge"
      [] OTHER -> "TestWorkoutDeviceTranspile100Q"

\* the test modules of the suite
TestModules == {"test_qasmbench", "test_summit"}

Metrics == {"qasm_load_time", "gate_count_2q", "depth_2q"}

\* ------------------------------------------------------------ configuration

\* coupling of the device qubits the compiled gates of the model act on
Coupling == {<<0, 1>>, <<1, 0>>, <<1, 2>>, <<2, 1>>}

\* the backends Configuration.backend() can resolve to
Backend27cz == [num_qubits |-> 27, two_q_gate_type |-> "cz", coupling |-> Coupling]
Backend127cz == [num_qubits |-> 127, two_q_gate_type |-> "cz", coupling |-> Coupling]
Backend127ecr == [num_qubits |-> 127, two_q_gate_type |-> "ecr", coupling |-> Coupling]

\* Configuration.options[gym]["optimization_level"], per gym
Options(b, q) == [bqskit |-> [optimization_level |-> b], qiskit |-> [optimization_level |-> q]]

\* the process-wide configurations a session can run under
Configurations ==
    {[backend |-> Backend27cz, options |-> Options(1, 3)],
     [backend |-> Backend127cz, options |-> Options(3, 1)],
     [backend |-> Backend127ecr, options |-> Options(2, 2)]}

\* topology specifications of the parametrized lists
Topologies == {"linear", "square_2x2"}

\* circ_and_topo parameter sets: (QASM file, topology)
CIRC_TOPO(e) ==
    CASE e = "test_QASMBench_small" -> {"small.qasm"} \X Topologies
      [] e = "test_QASMBench_medium" -> {"medium.qasm"} \X Topologies
      [] e = "test_QASMBench_large" -> {"large.qasm"} \X Topologies
      [] e = "test_QFT_100_transpile" -> {<<"qft_N100.qasm", "device">>}
      [] e = "test_QV_100_transpile" -> {<<"qv_N100_12345.qasm", "device">>}
      [] e = "test_square_heisenberg_100_transpile" ->
             {<<"square_heisenberg_N100.qasm", "device">>}
      [] e = "test_QAOA_100_transpile" ->
             {<<"qaoa_barabasi_albert_N100_3reps.qasm", "device">>}
      [] e = "test_circSU2_100_transpile" -> {<<"EfficientSU2", "device">>}
      [] e = "test_BV_100_transpile" -> {<<"bv_all_ones", "device">>}
      [] OTHER -> {<<"trivial_bvlike_circuit", "device">>}

\* qubit count of the circuit a file or generator yields
NumQubits(src) ==
    CASE src = "small.qasm" -> 3
      [] src = "medium.qasm" -> 5
      [] src = "large.qasm" -> 5
      [] OTHER -> N100

\* ------------------------------------------------------------ values
NoCircuit == [id |-> -1, src |-> "none", num_qubits |-> 0]
NoBackend == [num_qubits |-> 0, two_q_gate_type |-> "none", coupling |-> {}]
NoResult == [id |-> -1, gates |-> <<>>]
NoPm == [level |-> -1, backend |-> NoBackend, init |-> <<"unset">>]
NoParam == <<"none", "none">>

\* the circuit value a source yields; object 0 of the entry
CircuitOf(src) == [id |-> 0, src |-> src, num_qubits |-> NumQubits(src)]

\* gate operations a compiled circuit is made of
Gates ==
    {[name |-> "cz", qubits |-> <<0, 1>>], [name |-> "ecr", qubits |-> <<0, 2>>]}

RECURSIVE SeqsUpTo(_, _)
SeqsUpTo(S, n) ==
    IF n = 0 THEN {<<>>}
    ELSE LET shorter == SeqsUpTo(S, n - 1)
         IN  shorter \cup {Append(s, x) : s \in shorter, x \in S}

\* gate sequences the external compiler can return
CompiledGateSeqs == SeqsUpTo(Gates, MaxGates)

Range(s) == {s[i] : i \in DOMAIN s}

SetMax(S) == IF S = {} THEN 0 ELSE CHOOSE m \in S : \A x \in S : x <= m

\* ------------------------------------------------- circuit methods (external)
\* result.count_ops().get(name, 0): operations of that name, 0 when there is none
CountOpsGet(gates, name) == Cardinality({i \in DOMAIN gates : gates[i].name = name})

\* key test of result.gate_counts, a dict over the gates present in the circuit:
\* subscripting it with a gate the circuit does not contain raises KeyError
InGateCounts(gates, gate) == \E i \in DOMAIN gates : gates[i].name = gate

\* result.gate_counts[gate], for a gate present in the circuit
GateCountsItem(gates, gate) == Cardinality({i \in DOMAIN gates : gates[i].name = gate})

\* longest chain of dependent operations among those in keep
RECURSIVE DepthRec(_, _, _)
DepthRec(gates, level, keep) ==
    IF gates = <<>> THEN SetMax(Range(level))
    ELSE LET g == Head(gates)
             qs == Range(g.qubits)
             n == 1 + SetMax({level[q + 1] : q \in qs})
         IN  IF g \in keep
             THEN DepthRec(Tail(gates),
                           [q \in DOMAIN level |-> IF (q - 1) \in qs THEN n ELSE level[q]],
                           keep)
             ELSE DepthRec(Tail(gates), level, keep)

\* result.depth(filter_function=lambda x: x.operation.name == name)
DepthFiltered(gates, name) ==
    DepthRec(gates, <<0, 0, 0>>, {g \in Gates : g.name = name})

\* result.multi_qudit_depth: depth over every gate on two or more qudits
MultiQuditDepth(gates) ==
    DepthRec(gates, <<0, 0, 0>>, {g \in Gates : Len(g.qubits) >= 2})

\* ------------------------------------------------- repository collaborators
\* connectivity slots a topology specification offers for n requested qubits
TopologySlots(topo, n) == IF topo = "square_2x2" THEN 4 ELSE n

\* BqskitFlexibleBackend(num_qudits, topology); NoBackend stands for the
\* ConfigurationError of an infeasible request
BqskitFlexibleBackend(n, topo) ==
    IF TopologySlots(topo, n) < n THEN NoBackend
    ELSE [num_qubits |-> TopologySlots(topo, n), two_q_gate_type |-> "cz",
          coupling |-> Coupling]

\* circuit_validator(circuit, backend): every multi-qubit gate on a coupled pair
\* and every gate in the native set (the two-qubit type, or a one-qubit gate)
circuit_validator(res, bk) ==
    \A i \in DOMAIN res.gates :
        LET g == res.gates[i]
        IN  IF Len(g.qubits) >= 2
            THEN g.qubits \in bk.coupling /\ g.name = bk.two_q_gate_type
            ELSE TRUE

\* ------------------------------------------------- benchmark.extra_info (dict)
DictKeys(d) == {kv[1] : kv \in d}
DictGet(d, k) == (CHOOSE kv \in d : kv[1] = k)[2]
DictSet(d, k, v) == {kv \in d : kv[1] # k} \cup {<<k, v>>}

\* ------------------------------------------------------------------- state
VARIABLES
    Configuration,       \* benchpress.config.Configuration, read-only
    imported,            \* test modules pytest has imported
    BACKEND,             \* test_summit.BACKEND
    TWO_Q_GATE,          \* test_summit.TWO_Q_GATE
    OPTIMIZATION_LEVEL,  \* OPTIMIZATION_LEVEL of each test module
    executed,            \* entries pytest has called
    status,              \* state of the entry being executed
    cur,                 \* entry being executed, "none" between entries
    param,               \* its circ_and_topo parameter
    pc,                  \* statement the entry is at
    circuit,             \* local circuit
    FlexBACKEND,         \* local BACKEND of a bqskit entry
    FlexTWO_Q_GATE,      \* local TWO_Q_GATE of a bqskit entry
    compiler,            \* local compiler: the handle the entry created
    pm,                  \* local pass manager of a qiskit entry
    result,              \* value the benchmark fixture returned
    samples,             \* calls of the benchmarked closure so far
    compileLog,          \* arguments of every compiler invocation of the entry
    extra_info,          \* benchmark.extra_info of the entry
    writeCount,          \* item assignments made to extra_info, per key
    verdict,             \* what circuit_validator returned: "true", "false"; "none" before
    raised,              \* exception that ended the entry, "none" otherwise
    clock,               \* perf_counter
    start,               \* qiskit_qasm_loader: start
    stop,                \* qiskit_qasm_loader: stop
    parseCalls,          \* calls of QuantumCircuit.from_qasm_file by the entry
    liveHandles          \* compiler handles created and not shut down

moduleVars == <<Configuration, imported, BACKEND, TWO_Q_GATE, OPTIMIZATION_LEVEL>>
loaderVars == <<clock, start, stop, parseCalls>>
localVars == <<circuit, FlexBACKEND, FlexTWO_Q_GATE, compiler, pm, result>>
benchVars == <<samples, compileLog>>
infoVars == <<extra_info, writeCount>>
vars ==
    <<Configuration, imported, BACKEND, TWO_Q_GATE, OPTIMIZATION_LEVEL, executed,
      status, cur, param, pc,
      circuit, FlexBACKEND, FlexTWO_Q_GATE, compiler, pm, result, samples,
      compileLog, extra_info, writeCount, verdict, raised, clock, start, stop,
      parseCalls, liveHandles>>

NoWrites == [m \in Metrics |-> 0]

Init ==
    /\ Configuration \in Configurations
    /\ imported = {}
    /\ BACKEND = NoBackend
    /\ TWO_Q_GATE = "none"
    /\ OPTIMIZATION_LEVEL = [bqskit |-> -1, qiskit |-> -1]
    /\ executed = {}
    /\ status = "unexecuted"
    /\ cur = "none"
    /\ param = NoParam
    /\ pc = "idle"
    /\ circuit = NoCircuit
    /\ FlexBACKEND = NoBackend
    /\ FlexTWO_Q_GATE = "none"
    /\ compiler = "none"
    /\ pm = NoPm
    /\ result = NoResult
    /\ samples = 0
    /\ compileLog = <<>>
    /\ extra_info = {}
    /\ writeCount = NoWrites
    /\ verdict = "none"
    /\ raised = "none"
    /\ clock = 0
    /\ start = 0
    /\ stop = 0
    /\ parseCalls = 0
    /\ liveHandles = {}

\* ----------------------------------------------------------------- helpers
\* an exception leaves the test method: nothing catches it
Raise(exc) ==
    /\ raised' = exc
    /\ status' = "failed"
    /\ pc' = "done"

\* benchmark.extra_info[key] = value
SetExtraInfo(key, value) ==
    /\ extra_info' = DictSet(extra_info, key, value)
    /\ writeCount' = [writeCount EXCEPT ![key] = @ + 1]

\* ------------------------------------------------------------ module import
\* test_qasmbench.py, module level
ImportQasmbench ==
    /\ cur = "none"
    /\ "test_qasmbench" \notin imported
    /\ imported' = imported \cup {"test_qasmbench"}
    /\ OPTIMIZATION_LEVEL' =
           [OPTIMIZATION_LEVEL EXCEPT
               !.bqskit = Configuration.options["bqskit"]["optimization_level"]]
    /\ UNCHANGED <<Configuration, BACKEND, TWO_Q_GATE, executed, status, cur, param, pc,
                   localVars, benchVars, infoVars, verdict, raised, loaderVars,
                   liveHandles>>

\* test_summit.py, module level: the fixed backend is resolved here, once
ImportSummit ==
    /\ cur = "none"
    /\ "test_summit" \notin imported
    /\ imported' = imported \cup {"test_summit"}
    /\ BACKEND' = Configuration.backend
    /\ TWO_Q_GATE' = BACKEND'.two_q_gate_type
    /\ OPTIMIZATION_LEVEL' =
           [OPTIMIZATION_LEVEL EXCEPT
               !.qiskit = Configuration.options["qiskit"]["optimization_level"]]
    /\ UNCHANGED <<Configuration, executed, status, cur, param, pc, localVars,
                   benchVars, infoVars, verdict, raised, loaderVars, liveHandles>>

\* ------------------------------------------------------------ entry start
\* pytest, having collected (imported) the test modules, calls one test method
\* with a fresh benchmark fixture
StartEntry(e, p) ==
    /\ cur = "none"
    /\ e \notin executed
    /\ imported = TestModules
    /\ Cardinality(executed) < MaxRun
    /\ p \in CIRC_TOPO(e)
    /\ cur' = e
    /\ param' = p
    /\ executed' = executed \cup {e}
    /\ status' = "running"
    /\ pc' = "load"
    /\ UNCHANGED <<moduleVars, localVars, benchVars, infoVars, verdict, raised,
                   loaderVars, liveHandles>>

\* ------------------------------------------------------------------- load
\* variant of qiskit_qasm_loader with the operands of the subtraction swapped
LoaderSwappedOperands(qasm_file, d, ok) ==
    /\ start' = clock
    /\ parseCalls' = parseCalls + 1
    /\ clock' = clock + d
    /\ IF ok
       THEN /\ stop' = clock'
            /\ SetExtraInfo("qasm_load_time", start' - stop')
            /\ circuit' = CircuitOf(qasm_file)
       ELSE /\ stop' = stop
            /\ UNCHANGED <<infoVars, circuit>>

\* qiskit_qasm_loader(qasm_file, benchmark); the parse takes d ticks and succeeds
\* (ok) or raises.  circuit' is the value returned to the caller.
qiskit_qasm_loader(qasm_file, d, ok) ==
    /\ start' = clock
    /\ parseCalls' = parseCalls + 1
    /\ clock' = clock + d
    /\ IF ok
       THEN /\ stop' = clock'
            /\ SetExtraInfo("qasm_load_time", stop' - start')
            /\ circuit' = CircuitOf(qasm_file)
       ELSE /\ stop' = stop
            /\ UNCHANGED <<infoVars, circuit>>

\* circuit = qasm_circuit_loader(file, benchmark): the call reaches the gym's
\* loader; the loader of qiskit_gym/utils/io.py stands for both gyms
LoadCircuit ==
    /\ pc = "load"
    /\ cur \in BqskitEntries \cup QiskitLoaderEntries
    /\ \E d \in 0..(MaxClock - clock), ok \in BOOLEAN :
           /\ qiskit_qasm_loader(param[1], d, ok)
           /\ IF ok
              THEN /\ pc' = IF cur \in BqskitEntries THEN "backend" ELSE "pm"
                   /\ UNCHANGED <<status, raised>>
              ELSE Raise("ParseError")
    /\ UNCHANGED <<moduleVars, executed, cur, param, FlexBACKEND, FlexTWO_Q_GATE, compiler, pm,
                   result, benchVars, verdict, liveHandles>>

\* circuit = EfficientSU2(100, ...) | bv_all_ones(100) | trivial_bvlike_circuit(100)
GenerateCircuit ==
    /\ pc = "load"
    /\ cur \in QiskitGeneratorEntries
    /\ circuit' = CircuitOf(param[1])
    /\ pc' = "pm"
    /\ UNCHANGED <<moduleVars, status, executed, cur, param, FlexBACKEND, FlexTWO_Q_GATE,
                   compiler, pm, result, benchVars, infoVars, verdict, raised,
                   loaderVars, liveHandles>>

\* ------------------------------------------------- backend, handle, pass manager
\* BACKEND = BqskitFlexibleBackend(circuit.num_qudits, circ_and_topo[1])
\* TWO_Q_GATE = BACKEND.two_q_gate_type
ResolveFlexibleBackend ==
    /\ pc = "backend"
    /\ LET bk == BqskitFlexibleBackend(circuit.num_qubits, param[2])
       IN  IF bk = NoBackend
           THEN /\ Raise("ConfigurationError")
                /\ UNCHANGED <<FlexBACKEND, FlexTWO_Q_GATE>>
           ELSE /\ FlexBACKEND' = bk
                /\ FlexTWO_Q_GATE' = bk.two_q_gate_type
                /\ pc' = "compiler"
                /\ UNCHANGED <<status, raised>>
    /\ UNCHANGED <<moduleVars, executed, cur, param, circuit, compiler, pm, result, benchVars,
                   infoVars, verdict, loaderVars, liveHandles>>

\* variant of CreateCompiler that reuses a handle left over by an earlier entry
CreateCompilerShared ==
    /\ pc = "compiler"
    /\ compiler' = IF liveHandles = {} THEN cur ELSE CHOOSE h \in liveHandles : TRUE
    /\ liveHandles' = liveHandles \cup {compiler'}
    /\ pc' = "benchmark"
    /\ UNCHANGED <<moduleVars, status, executed, cur, param, circuit, FlexBACKEND,
                   FlexTWO_Q_GATE, pm, result, benchVars, infoVars, verdict, raised,
                   loaderVars>>

\* compiler = Compiler()
CreateCompiler ==
    /\ pc = "compiler"
    /\ compiler' = cur
    /\ liveHandles' = liveHandles \cup {cur}
    /\ pc' = "benchmark"
    /\ UNCHANGED <<moduleVars, status, executed, cur, param, circuit, FlexBACKEND,
                   FlexTWO_Q_GATE, pm, result, benchVars, infoVars, verdict, raised,
                   loaderVars>>

\* pm = generate_preset_pass_manager(OPTIMIZATION_LEVEL, BACKEND)
GeneratePassManager ==
    /\ pc = "pm"
    /\ pm' = [level |-> OPTIMIZATION_LEVEL.qiskit, backend |-> BACKEND, init |-> <<>>]
    /\ pc' = IF cur = "test_QFT_100_transpile" THEN "append" ELSE "benchmark"
    /\ UNCHANGED <<moduleVars, status, executed, cur, param, circuit, FlexBACKEND,
                   FlexTWO_Q_GATE, compiler, result, benchVars, infoVars, verdict,
                   raised, loaderVars, liveHandles>>

\* pm.init.append(StarPreRouting())
AppendStarPreRouting ==
    /\ pc = "append"
    /\ pm' = [pm EXCEPT !.init = Append(@, "StarPreRouting")]
    /\ pc' = "benchmark"
    /\ UNCHANGED <<moduleVars, status, executed, cur, param, circuit, FlexBACKEND,
                   FlexTWO_Q_GATE, compiler, result, benchVars, infoVars, verdict,
                   raised, loaderVars, liveHandles>>

\* --------------------------------------------------------------- benchmark
\* the backend the entry compiles against and validates with
BackendOf(e) == IF e \in BqskitEntries THEN FlexBACKEND ELSE BACKEND

\* arguments of compile(circuit, model=BACKEND,
\*                      optimization_level=OPTIMIZATION_LEVEL, compiler=compiler)
BqskitCompileArgs ==
    [circuit |-> circuit, backend |-> FlexBACKEND,
     level |-> OPTIMIZATION_LEVEL.bqskit, compiler |-> compiler, init |-> <<>>]

\* arguments of pm.run(circuit): the circuit and the pass manager's configuration
QiskitRunArgs ==
    [circuit |-> circuit, backend |-> pm.backend, level |-> pm.level,
     compiler |-> "none", init |-> pm.init]

ClosureArgs == IF cur \in BqskitEntries THEN BqskitCompileArgs ELSE QiskitRunArgs

\* variant of CompileReturn in which the closure rebinds the input circuit
CompileReturnRebinds(gs) ==
    /\ pc = "benchmark"
    /\ samples < MaxSamples
    /\ circuit.num_qubits <= ClosureArgs.backend.num_qubits
    /\ gs \in CompiledGateSeqs
    /\ samples' = samples + 1
    /\ compileLog' = Append(compileLog, ClosureArgs)
    /\ result' = [id |-> samples + 1, gates |-> gs]
    /\ circuit' = [circuit EXCEPT !.id = samples + 1, !.src = "new_circ"]
    /\ UNCHANGED <<moduleVars, status, executed, cur, param, pc, FlexBACKEND,
                   FlexTWO_Q_GATE, compiler, pm, infoVars, verdict, raised,
                   loaderVars, liveHandles>>

\* one call of the benchmarked closure result(): the compiler is invoked once and
\* returns a new circuit value
CompileReturn(gs) ==
    /\ pc = "benchmark"
    /\ samples < MaxSamples
    /\ circuit.num_qubits <= ClosureArgs.backend.num_qubits
    /\ gs \in CompiledGateSeqs
    /\ samples' = samples + 1
    /\ compileLog' = Append(compileLog, ClosureArgs)
    /\ result' = [id |-> samples + 1, gates |-> gs]
    /\ UNCHANGED <<moduleVars, status, executed, cur, param, pc, circuit, FlexBACKEND,
                   FlexTWO_Q_GATE, compiler, pm, infoVars, verdict, raised,
                   loaderVars, liveHandles>>

\* variant of CompileRaise in which the exception is caught and sampling goes on
CompileRaiseSwallowed ==
    /\ pc = "benchmark"
    /\ samples < MaxSamples
    /\ samples' = samples + 1
    /\ compileLog' = Append(compileLog, ClosureArgs)
    /\ raised' = "CompileFailure"
    /\ UNCHANGED <<moduleVars, status, executed, cur, param, pc, localVars, infoVars,
                   verdict, loaderVars, liveHandles>>

\* one call of the benchmarked closure in which the compiler raises
CompileRaise ==
    /\ pc = "benchmark"
    /\ samples < MaxSamples
    /\ samples' = samples + 1
    /\ compileLog' = Append(compileLog, ClosureArgs)
    /\ Raise("CompileFailure")
    /\ UNCHANGED <<moduleVars, executed, cur, param, localVars, infoVars, verdict, loaderVars,
                   liveHandles>>

\* the benchmark fixture returns the closure's value, which is bound to result
BenchmarkReturn ==
    /\ pc = "benchmark"
    /\ samples >= 1
    /\ pc' = "gate_count_2q"
    /\ UNCHANGED <<moduleVars, status, executed, cur, param, localVars, benchVars, infoVars,
                   verdict, raised, loaderVars, liveHandles>>

\* ----------------------------------------------------------------- metrics
\* benchmark.extra_info["gate_count_2q"] = result.gate_counts[TWO_Q_GATE]
RecordGateCountBqskit ==
    /\ pc = "gate_count_2q"
    /\ cur \in BqskitEntries
    /\ IF InGateCounts(result.gates, FlexTWO_Q_GATE)
       THEN /\ SetExtraInfo("gate_count_2q",
                            GateCountsItem(result.gates, FlexTWO_Q_GATE))
            /\ pc' = "depth_2q"
            /\ UNCHANGED <<status, raised>>
       ELSE /\ Raise("KeyError")
            /\ UNCHANGED infoVars
    /\ UNCHANGED <<moduleVars, executed, cur, param, localVars, benchVars, verdict, loaderVars,
                   liveHandles>>

\* the gate name an entry of test_summit.py counts
CountedGate(e) == IF e = "test_circSU2_100_transpile" THEN "cz" ELSE TWO_Q_GATE

\* benchmark.extra_info["gate_count_2q"] = result.count_ops().get(<name>, 0)
RecordGateCountQiskit ==
    /\ pc = "gate_count_2q"
    /\ cur \in QiskitEntries
    /\ SetExtraInfo("gate_count_2q", CountOpsGet(result.gates, CountedGate(cur)))
    /\ pc' = "depth_2q"
    /\ UNCHANGED <<moduleVars, status, executed, cur, param, localVars, benchVars, verdict,
                   raised, loaderVars, liveHandles>>

\* variant of RecordDepth that stores the depth under the gate-count key
RecordDepthWrongKey ==
    /\ pc = "depth_2q"
    /\ SetExtraInfo("gate_count_2q",
                    IF cur \in BqskitEntries THEN MultiQuditDepth(result.gates)
                    ELSE DepthFiltered(result.gates, TWO_Q_GATE))
    /\ pc' = "validate"
    /\ UNCHANGED <<moduleVars, status, executed, cur, param, localVars, benchVars,
                   verdict, raised, loaderVars, liveHandles>>

\* benchmark.extra_info["depth_2q"] = result.multi_qudit_depth
\* benchmark.extra_info["depth_2q"] = result.depth(filter_function=... == TWO_Q_GATE)
RecordDepth ==
    /\ pc = "depth_2q"
    /\ SetExtraInfo("depth_2q",
                    IF cur \in BqskitEntries THEN MultiQuditDepth(result.gates)
                    ELSE DepthFiltered(result.gates, TWO_Q_GATE))
    /\ pc' = "validate"
    /\ UNCHANGED <<moduleVars, status, executed, cur, param, localVars, benchVars, verdict,
                   raised, loaderVars, liveHandles>>

\* ---------------------------------------------------------------- validate
\* variant of ValidateAndAssert that calls the validator without asserting
ValidateWithoutAssert ==
    /\ pc = "validate"
    /\ verdict' = IF circuit_validator(result, BackendOf(cur)) THEN "true" ELSE "false"
    /\ status' = "passed"
    /\ pc' = "done"
    /\ UNCHANGED <<moduleVars, executed, cur, param, localVars, benchVars, infoVars,
                   raised, loaderVars, liveHandles>>

\* assert circuit_validator(result, BACKEND)
ValidateAndAssert ==
    /\ pc = "validate"
    /\ verdict' = IF circuit_validator(result, BackendOf(cur)) THEN "true" ELSE "false"
    /\ IF verdict' = "true"
       THEN /\ status' = "passed"
            /\ pc' = "done"
            /\ UNCHANGED raised
       ELSE Raise("AssertionError")
    /\ UNCHANGED <<moduleVars, executed, cur, param, localVars, benchVars, infoVars, loaderVars,
                   liveHandles>>

\* ------------------------------------------------------------- end of scope
\* the test method's frame and its benchmark fixture go away.  The method never
\* calls compiler.close() and uses no with-block: the handle it created is not
\* shut down by the harness.
Teardown ==
    /\ pc = "done"
    /\ cur' = "none"
    /\ status' = "unexecuted"
    /\ param' = NoParam
    /\ pc' = "idle"
    /\ circuit' = NoCircuit
    /\ FlexBACKEND' = NoBackend
    /\ FlexTWO_Q_GATE' = "none"
    /\ compiler' = "none"
    /\ pm' = NoPm
    /\ result' = NoResult
    /\ samples' = 0
    /\ compileLog' = <<>>
    /\ extra_info' = {}
    /\ writeCount' = NoWrites
    /\ verdict' = "none"
    /\ raised' = "none"
    /\ start' = 0
    /\ stop' = 0
    /\ parseCalls' = 0
    /\ UNCHANGED <<moduleVars, executed, clock, liveHandles>>

\* ------------------------------------------------------------ specification
Next ==
    \/ ImportQasmbench
    \/ ImportSummit
    \/ \E e \in Entries : \E p \in CIRC_TOPO(e) : StartEntry(e, p)
    \/ LoadCircuit
    \/ GenerateCircuit
    \/ ResolveFlexibleBackend
    \/ CreateCompiler
    \/ GeneratePassManager
    \/ AppendStarPreRouting
    \/ \E gs \in CompiledGateSeqs : CompileReturn(gs)
    \/ CompileRaise
    \/ BenchmarkReturn
    \/ RecordGateCountBqskit
    \/ RecordGateCountQiskit
    \/ RecordDepth
    \/ ValidateAndAssert
    \/ Teardown

Spec == Init /\ [][Next]_vars

\* ------------------------------------------------------------------ claims
Keys == DictKeys(extra_info)
LoaderEntries == BqskitEntries \cup QiskitLoaderEntries
LoadDone == circuit # NoCircuit
Failures == {"ParseError", "ConfigurationError", "CompileFailure", "KeyError",
             "AssertionError"}

\* what holds of every entry whatever the place of backend resolution: each step
\* has its predecessor behind it, a failure ends the entry at once, and the entry
\* is unexecuted, running, or ended in exactly one of passed and failed
PipelineShape ==
    /\ cur = "none" => status = "unexecuted" /\ pc = "idle" /\ raised = "none"
    /\ cur # "none" =>
        /\ cur \in executed
        /\ status \in {"running", "passed", "failed"}
        /\ (status \in {"passed", "failed"}) <=> (pc = "done")
        /\ (status = "failed") <=> (raised \in Failures)
        /\ raised \in Failures \cup {"none"}
        /\ parseCalls <= 1
        /\ samples >= 1 => LoadDone /\ BackendOf(cur) # NoBackend
        /\ Keys \cap {"gate_count_2q", "depth_2q"} # {} =>
               samples >= 1 /\ result # NoResult
        /\ verdict # "none" => samples >= 1 /\ result # NoResult /\ pc = "done"
        /\ raised = "ParseError" => ~LoadDone /\ samples = 0 /\ verdict = "none"
        /\ raised = "ConfigurationError" => samples = 0 /\ verdict = "none"
        /\ raised \in {"CompileFailure", "KeyError"} => verdict = "none"
        /\ raised = "AssertionError" => verdict = "false"
        /\ status = "passed" =>
               /\ verdict = "true"
               /\ circuit_validator(result, BackendOf(cur))
               /\ compileLog[Len(compileLog)].backend = BackendOf(cur)

\* C1 as stated: every entry, of either test module, runs Load -> Resolve Backend
\* -> Compile -> Validate -> Assert in that order, without retry, from unexecuted
\* to exactly one of passed and failed, passed only on a true verdict.  The order
\* Load -> Resolve Backend says: a resolved backend implies a completed load.
C1_LoadBeforeResolveEverywhere ==
    /\ PipelineShape
    /\ cur # "none" /\ BackendOf(cur) # NoBackend => LoadDone

\* C1 (amended): every entry runs Load -> Compile (N samples) -> Validate -> Assert
\* in that order, without retry, from unexecuted to exactly one of passed and
\* failed, passed only when the validator returned true for the compiled circuit
\* against the backend it was compiled for; the backend is resolved before the
\* first sample: after Load in the bqskit entries, at module import (before any
\* entry starts) in the qiskit entries.
C1_Pipeline ==
    /\ PipelineShape
    /\ cur \in BqskitEntries /\ FlexBACKEND # NoBackend => LoadDone
    /\ cur \in QiskitEntries => BACKEND # NoBackend

\* a qiskit entry passed after two samples, its backend resolved at import
C1_Witness ==
    /\ cur \in QiskitLoaderEntries
    /\ status = "passed"
    /\ samples = 2

\* C2: when the compiler raises during a sample the entry ends failed at once:
\* no further invocation, no validator call, no gate_count_2q and no depth_2q.
C2_CompileFailurePropagates ==
    /\ [](raised = "CompileFailure" =>
            /\ status = "failed"
            /\ pc = "done"
            /\ verdict = "none"
            /\ Keys \cap {"gate_count_2q", "depth_2q"} = {})
    /\ [][raised = "CompileFailure" =>
            \/ cur' = "none"
            \/ UNCHANGED <<samples, compileLog, verdict, extra_info, status>>]_vars

\* the compiler raised in the second sample, after a first one had returned
C2_Witness ==
    /\ raised = "CompileFailure"
    /\ samples = 2
    /\ result # NoResult

\* C3: the loader parses once; on success it returns the parsed circuit and
\* records qasm_load_time = stop - start >= 0; on a parse error nothing is
\* returned, nothing is retried and extra_info is left as it was.
C3_Loader ==
    /\ parseCalls <= 1
    /\ pc = "load" => parseCalls = 0 /\ extra_info = {}
    /\ cur \in LoaderEntries /\ LoadDone =>
        /\ parseCalls = 1
        /\ circuit = CircuitOf(param[1])
        /\ "qasm_load_time" \in Keys
        /\ DictGet(extra_info, "qasm_load_time") = stop - start
        /\ DictGet(extra_info, "qasm_load_time") >= 0
    /\ raised = "ParseError" =>
        /\ parseCalls = 1
        /\ circuit = NoCircuit
        /\ extra_info = {}
        /\ writeCount = NoWrites

\* a load that took one tick of the clock
C3_Witness ==
    /\ cur \in LoaderEntries
    /\ LoadDone
    /\ stop - start = 1

\* C4: gate_count_2q is the number of operations of the backend's two-qubit gate
\* type and depth_2q the depth over gates of that same type, in every entry.
C4_MetricsOfBackendGateType ==
    cur # "none" =>
        /\ "gate_count_2q" \in Keys =>
               DictGet(extra_info, "gate_count_2q") =
                   CountOpsGet(result.gates, BackendOf(cur).two_q_gate_type)
        /\ "depth_2q" \in Keys =>
               DictGet(extra_info, "depth_2q") =
                   DepthFiltered(result.gates, BackendOf(cur).two_q_gate_type)

\* C5: with loader, compiler and validator not raising and the circuit fitting
\* the backend, the only exception of an entry is the failed assertion; recording
\* gate_count_2q never raises and yields a natural number.
C5_RecordingNeverRaises ==
    /\ raised \in {"none", "AssertionError", "ParseError", "CompileFailure",
                   "ConfigurationError"}
    /\ "gate_count_2q" \in Keys => DictGet(extra_info, "gate_count_2q") \in Nat

\* C6: no compiler invocation has a circuit with more qubits than the backend; an
\* entry whose backend is too small ends with a ConfigurationError instead.
C6_NoCompileOnSmallBackend ==
    /\ \A i \in DOMAIN compileLog :
           compileLog[i].circuit.num_qubits <= compileLog[i].backend.num_qubits
    /\ cur # "none" /\ pc = "done" /\ LoadDone
       /\ circuit.num_qubits > BackendOf(cur).num_qubits =>
           raised = "ConfigurationError"

\* C7: every compiler handle is shut down when the scope of the entry that
\* created it ends, and is used by that entry only.
C7_HandlesReleased ==
    /\ liveHandles \subseteq {cur}
    /\ \A i \in DOMAIN compileLog : compileLog[i].compiler \in {"none", cur}

\* the compiler arguments an entry has by its declaration and the configuration
ExpectedArgs(e, p, cfg) ==
    IF e \in BqskitEntries
    THEN [circuit |-> CircuitOf(p[1]),
          backend |-> BqskitFlexibleBackend(NumQubits(p[1]), p[2]),
          level |-> cfg.options["bqskit"]["optimization_level"],
          compiler |-> e, init |-> <<>>]
    ELSE [circuit |-> CircuitOf(p[1]), backend |-> cfg.backend,
          level |-> cfg.options["qiskit"]["optimization_level"],
          compiler |-> "none",
          init |-> IF e = "test_QFT_100_transpile" THEN <<"StarPreRouting">>
                   ELSE <<>>]

\* C8: whatever entries ran before, in whatever order and with whatever outcome,
\* an entry hands the compiler the arguments its declaration and the
\* configuration fix, the module-level names keep their import-time values, and
\* the entry's outcome is decided by the compiled circuit alone.
C8_OrderInsensitive ==
    /\ \A i \in DOMAIN compileLog :
           compileLog[i] = ExpectedArgs(cur, param, Configuration)
    /\ "test_summit" \in imported =>
           /\ BACKEND = Configuration.backend
           /\ TWO_Q_GATE = Configuration.backend.two_q_gate_type
           /\ OPTIMIZATION_LEVEL.qiskit =
                  Configuration.options["qiskit"]["optimization_level"]
    /\ "test_qasmbench" \in imported =>
           OPTIMIZATION_LEVEL.bqskit =
               Configuration.options["bqskit"]["optimization_level"]
    /\ verdict # "none" =>
           (status = "passed") =
               circuit_validator(result, ExpectedArgs(cur, param, Configuration).backend)

\* an entry compiles as the second of the session, after another entry that
\* created a handle or appended StarPreRouting
C8_Witness ==
    /\ Cardinality(executed) = 2
    /\ samples >= 1
    /\ \/ cur \in BqskitEntries /\ liveHandles \ {cur} # {}
       \/ cur \in QiskitEntries \ {"test_QFT_100_transpile"}
          /\ "test_QFT_100_transpile" \in executed

\* C9: every sample is one compiler invocation, all samples of an entry get the
\* same arguments, the input circuit stays the loaded value and the compiled
\* result is another value.
C9_SamplesLeaveInputAlone ==
    /\ Len(compileLog) = samples
    /\ \A i, j \in DOMAIN compileLog : compileLog[i] = compileLog[j]
    /\ \A i \in DOMAIN compileLog : compileLog[i].circuit = CircuitOf(param[1])
    /\ LoadDone => circuit = CircuitOf(param[1])
    /\ result # NoResult => result.id # circuit.id

\* two samples have returned and the entry has gone on to the metrics
C9_Witness ==
    /\ samples = 2
    /\ pc = "validate"
    /\ Len(result.gates) = 2

\* C10: each metric is assigned at most once per entry; qasm_load_time by the
\* load step only; gate_count_2q and depth_2q after the last sample and before
\* the validator, so both are there whenever the validator has been called.
C10_WriteOnce ==
    /\ \A m \in Metrics : writeCount[m] <= 1 /\ (writeCount[m] = 1 <=> m \in Keys)
    /\ "qasm_load_time" \in Keys <=> cur \in LoaderEntries /\ LoadDone
    /\ "gate_count_2q" \in Keys =>
           pc \in {"depth_2q", "validate", "done"} /\ samples >= 1
    /\ "depth_2q" \in Keys =>
           pc \in {"validate", "done"} /\ "gate_count_2q" \in Keys
    /\ pc = "validate" => {"gate_count_2q", "depth_2q"} \subseteq Keys /\ verdict = "none"
    /\ verdict # "none" => {"gate_count_2q", "depth_2q"} \subseteq Keys

\* an entry that failed on a false verdict, all three metrics recorded
C10_Witness ==
    /\ verdict = "false"
    /\ status = "failed"
    /\ Keys = Metrics
====
